---- MODULE Spec2Model ----
(***************************************************************************)
(* SubscriptionManager (subscription-manager.ts) over a Storage Port.      *)
(*                                                                         *)
(* A manager call is an async function: it runs synchronously up to its    *)
(* await of the Storage Port, the port settles the request (applies it or  *)
(* fails), and the continuation then runs synchronously to the end of the  *)
(* call.  notify() is synchronous: while a notification pass is running no *)
(* other action is enabled; each callback invocation is one step of it.    *)
(***************************************************************************)
EXTENDS Integers, Sequences, FiniteSets, TLC

\* ---------------------------------------------------------------- bounds
NumListeners == 2      \* distinct listener references
MaxClock == 1          \* clock instants 0..MaxClock
MaxUnsubFns == 2       \* unsubscribe closures handed out in one run

\* ------------------------------------------------------------- constants
Listeners == 1..NumListeners
OnChange == 0                       \* the configured change callback, as an observer id
CallIds == {1, 2}                   \* slots for manager calls in flight
SeqIds == {1}                       \* the slot used by a caller that awaits each call

storageKey == "test:sub"
otherKey == "other:sub"
Keys == {storageKey, otherKey}

Null == <<>>
Some(r) == <<r>>

\* toISOString of the instant t
IsoDigits == <<"0", "1", "2", "3", "4", "5", "6", "7", "8", "9">>
toISOString(t) == "2026-01-01T00:00:0" \o IsoDigits[t + 1] \o ".000Z"

CallerStamp == "2025-01-01T00:00:00.000Z"
Stamps == {"", CallerStamp}
Shapes == {<<TRUE, "pro">>, <<FALSE, "free">>}
InputRecords == {[active |-> s[1], plan |-> s[2], updatedAt |-> u] : s \in Shapes, u \in Stamps}

OtherRecord == [active |-> TRUE, plan |-> "pro", updatedAt |-> CallerStamp]

StorageErrors == {"QuotaExceeded"}
ThrownErrors == {"ListenerError"}
\* the observers of the second manager: its listeners and its change callback
PeerListeners == {NumListeners + 1}
PeerOnChange == 0 - 1
\* the listener the provider's effect subscribes, and its hydration call
ProviderListener == NumListeners + 2
HydrateId == CHOOSE c \in CallIds \ SeqIds : TRUE
\* values a Storage Port may reject with that are not Error objects
NonErrorRejections == {"offline"}

VARIABLES
    now,           \* the clock read by new Date()                 (subscription-manager.ts:54)
    store,         \* the medium behind the Storage Port, by key   (mock storage of the tests)
    listeners,     \* this.listeners, in insertion order           (subscription-manager.ts:25)
    unsubFns,      \* the closures returned by subscribe, with a history flag "called"
    onChange,      \* whether config.onChange is present
    calls,         \* manager calls: position, port request and outcome, result;
                   \*   log, startSet, threw, hadRecord, passNo record what the call did
    pass,          \* the running notify(): caller, stage, value, forEach position
    lastMutation,  \* history: the last mutation the port accepted
    cancelled,     \* history: listeners unsubscribed since they were last subscribed
    peer,          \* a second manager on the same port and key: its listeners, its onChange
    provider       \* SubscriptionProvider: its React state, the effect's cancelled flag;
                   \*   phase and handled record its lifecycle    (SubscriptionContext.tsx:57-95)

vars == <<now, store, listeners, unsubFns, onChange, calls, pass, lastMutation, cancelled, peer, provider>>

\* ------------------------------------------------------------ Storage Port
GetRequest(key) == [kind |-> "get", key |-> key, value |-> Null]
SetRequest(key, value) == [kind |-> "set", key |-> key, value |-> Some(value)]
RemoveRequest(key) == [kind |-> "remove", key |-> key, value |-> Null]
NoRequest == [kind |-> "none", key |-> storageKey, value |-> Null]

\* the store after the port applied req (the in-memory port of the tests)
StorageApply(st, req) ==
    CASE req.kind = "set" -> [st EXCEPT ![req.key] = req.value]
      [] req.kind = "remove" -> [st EXCEPT ![req.key] = Null]
      [] OTHER -> st

\* what the port's promise resolves to
StorageResolve(st, req) == IF req.kind = "get" THEN st[req.key] ELSE Null

\* ------------------------------------------------- Set<listener> semantics
Contains(seq, l) == \E i \in 1..Len(seq) : seq[i] = l
IndexOf(seq, l) == CHOOSE i \in 1..Len(seq) : seq[i] = l
\* (mutant) an array push: no check for an existing entry
SetAdd_Push(seq, l) == Append(seq, l)
SetAdd(seq, l) == IF Contains(seq, l) THEN seq ELSE Append(seq, l)
SetDelete(seq, l) == SelectSeq(seq, LAMBDA x : x # l)
\* position of a running forEach after l was deleted: entries before the
\* cursor that disappear shift the cursor back
CursorAfterDelete(seq, cursor, l) ==
    IF Contains(seq, l) /\ IndexOf(seq, l) <= cursor THEN cursor - 1 ELSE cursor

\* --------------------------------------------------------------- results
Pending == [status |-> "pending", sub |-> Null, flag |-> FALSE, error |-> ""]
Resolved(sub, flag) == [status |-> "ok", sub |-> sub, flag |-> flag, error |-> ""]
Rejected(e) == [status |-> "err", sub |-> Null, flag |-> FALSE, error |-> e]

IdleCall == [op |-> "none", pc |-> "idle", arg |-> Null, at |-> 0, req |-> NoRequest,
             port |-> Pending, result |-> Pending, log |-> <<>>, startSet |-> {},
             threw |-> FALSE, hadRecord |-> FALSE, mgr |-> 1, passNo |-> 0]

IdlePass == [caller |-> 0, stage |-> "idle", value |-> Null, cursor |-> 0]

NoMutation == [op |-> "none", input |-> Null, at |-> 0, by |-> 0, mgr |-> 0]

Init ==
    /\ now = 0
    /\ store = [k \in Keys |-> IF k = otherKey THEN Some(OtherRecord) ELSE Null]
    /\ listeners = <<>>
    /\ unsubFns = <<>>
    /\ onChange \in BOOLEAN
    /\ calls = [c \in CallIds |-> IdleCall]
    /\ pass = IdlePass
    /\ lastMutation = NoMutation
    /\ cancelled = {}
    /\ peer = [listeners |-> <<>>, onChange |-> TRUE]
    /\ provider = [phase |-> "unmounted", subscription |-> Null, loading |-> TRUE, error |-> Null,
                   cancelled |-> FALSE, handled |-> FALSE]

PassIdle == pass.stage = "idle"
CanIssue(c) == PassIdle /\ calls[c].pc \in {"idle", "done"}

Issue(c, op, arg, at, req) ==
    calls' = [calls EXCEPT ![c] = [IdleCall EXCEPT !.op = op, !.pc = "awaiting", !.arg = arg,
                                                   !.at = at, !.req = req]]

\* ------------------------------------------------------------ the manager
\* (mutant) the stored record is rebuilt from the two base fields only
ToStore_Rebuild(subscription, t) ==
    [active |-> subscription.active,
     updatedAt |-> IF subscription.updatedAt # "" THEN subscription.updatedAt ELSE toISOString(t)]

\* (mutant) the timestamp is always replaced by the current time
ToStore_AlwaysStamp(subscription, t) == [subscription EXCEPT !.updatedAt = toISOString(t)]

\* value that setSubscription persists: { ...subscription, updatedAt: updatedAt || now }
ToStore(subscription, t) ==
    [subscription EXCEPT !.updatedAt =
        IF subscription.updatedAt # "" THEN subscription.updatedAt ELSE toISOString(t)]

\* (mutant) getSubscription reads another key
GetSubscriptionRequest_OtherKey == GetRequest(otherKey)

\* storage.get(storageKey)
GetSubscriptionRequest == GetRequest(storageKey)

\* (mutant) the input record is written instead of toStore
SetSubscriptionRequest_Raw(subscription, t) == SetRequest(storageKey, subscription)

\* storage.set(storageKey, toStore)
SetSubscriptionRequest(subscription, t) == SetRequest(storageKey, ToStore(subscription, t))

\* (mutant) clearSubscription overwrites with an inactive record instead of removing
ClearSubscriptionRequest_Deactivate ==
    SetRequest(storageKey, [active |-> FALSE, plan |-> "free", updatedAt |-> CallerStamp])

\* storage.remove(storageKey)
ClearSubscriptionRequest == RemoveRequest(storageKey)

getSubscription(c) ==
    /\ CanIssue(c)
    /\ Issue(c, "get", Null, 0, GetSubscriptionRequest)
    /\ UNCHANGED <<now, store, listeners, unsubFns, onChange, pass, lastMutation, cancelled, peer, provider>>

isActive(c) ==
    /\ CanIssue(c)
    /\ Issue(c, "isActive", Null, 0, GetSubscriptionRequest)
    /\ UNCHANGED <<now, store, listeners, unsubFns, onChange, pass, lastMutation, cancelled, peer, provider>>

\* (mutant) the manager rejects a write issued while another call is in flight
setSubscription_Exclusive(c, subscription) ==
    /\ CanIssue(c)
    /\ IF \E d \in CallIds \ {c} : calls[d].pc \in {"awaiting", "settled"}
         THEN calls' = [calls EXCEPT ![c] = [IdleCall EXCEPT !.op = "set", !.pc = "done",
                                                             !.arg = Some(subscription), !.at = now,
                                                             !.result = Rejected("Busy")]]
         ELSE Issue(c, "set", Some(subscription), now, SetSubscriptionRequest(subscription, now))
    /\ UNCHANGED <<now, store, listeners, unsubFns, onChange, pass, lastMutation, cancelled, peer, provider>>

setSubscription(c, subscription) ==
    /\ CanIssue(c)
    /\ Issue(c, "set", Some(subscription), now, SetSubscriptionRequest(subscription, now))
    /\ UNCHANGED <<now, store, listeners, unsubFns, onChange, pass, lastMutation, cancelled, peer, provider>>

clearSubscription(c) ==
    /\ CanIssue(c)
    /\ Issue(c, "clear", Null, 0, ClearSubscriptionRequest)
    /\ UNCHANGED <<now, store, listeners, unsubFns, onChange, pass, lastMutation, cancelled, peer, provider>>

\* ------------------------------------------------ the port settles a request
\* the port applies the request of call c and its promise resolves
storageSettle(c) ==
    /\ PassIdle
    /\ calls[c].pc = "awaiting"
    /\ store' = StorageApply(store, calls[c].req)
    /\ calls' = [calls EXCEPT ![c].pc = "settled",
                              ![c].port = Resolved(StorageResolve(store, calls[c].req), FALSE),
                              ![c].hadRecord = calls[c].req.kind = "remove" /\ store[storageKey] # Null]
    /\ lastMutation' =
          CASE calls[c].req.kind = "set" ->
                 [op |-> "set", input |-> calls[c].arg, at |-> calls[c].at, by |-> c, mgr |-> calls[c].mgr]
            [] calls[c].req.kind = "remove" ->
                 [op |-> "clear", input |-> Null, at |-> 0, by |-> c, mgr |-> calls[c].mgr]
            [] OTHER -> lastMutation
    /\ UNCHANGED <<now, listeners, unsubFns, onChange, pass, cancelled, peer, provider>>

\* the port fails the request of call c with error e; nothing is written
storageFail(c, e) ==
    /\ PassIdle
    /\ calls[c].pc = "awaiting"
    /\ calls' = [calls EXCEPT ![c].pc = "settled", ![c].port = Rejected(e)]
    /\ UNCHANGED <<now, store, listeners, unsubFns, onChange, pass, lastMutation, cancelled, peer, provider>>

\* ------------------------------------------------------- continuations
\* (mutant) a read failure is swallowed and reported as "no record"
GetResult_Swallow(port) == IF port.status = "ok" THEN port ELSE Resolved(Null, FALSE)

\* getSubscription returns the port's promise
GetResult(port) == port

\* (mutant) any stored record counts as active
ActiveOf_Exists(sub) == sub # Null

\* sub?.active ?? false
ActiveOf(sub) == IF sub = Null THEN FALSE ELSE sub[1].active

IsActiveResult(port) ==
    IF port.status = "ok" THEN Resolved(Null, ActiveOf(port.sub)) ELSE Rejected(port.error)

\* (mutant) notify runs whether or not the port call succeeded
NotifyAfter_Always(port) == TRUE

\* the await in setSubscription / clearSubscription lets notify run
NotifyAfter(port) == port.status = "ok"

\* (mutant) one registry for the whole process
ListenersOf_Shared(m) == listeners \o peer.listeners
\* this.listeners and this.config.onChange of manager m
ListenersOf(m) == IF m = 1 THEN listeners ELSE peer.listeners
OnChangeOf(m) == IF m = 1 THEN onChange ELSE peer.onChange

\* (mutant) the listeners are notified and the change callback is skipped
FirstStage_ListenersOnly(hasOnChange) == "forEach"

\* this.config.onChange?.(...) comes first when the callback is configured
FirstStage(hasOnChange) == IF hasOnChange THEN "onChange" ELSE "forEach"

\* notify(subscription) is entered: onChange first, then listeners.forEach
notify(c, subscription) ==
    /\ calls' = [calls EXCEPT ![c].pc = "notifying",
                              ![c].startSet = LET ls == ListenersOf(calls[c].mgr)
                                              IN  {ls[i] : i \in 1..Len(ls)},
                              ![c].passNo = 1 + Cardinality({d \in CallIds \ {c} : calls[d].passNo > 0})]
    /\ pass' = [caller |-> c, stage |-> FirstStage(OnChangeOf(calls[c].mgr)),
                value |-> subscription, cursor |-> 0]

\* (mutant) a read also fans the value out to the observers
getSubscriptionReturn_Notify(c) ==
    /\ PassIdle
    /\ calls[c].op = "get" /\ calls[c].pc = "settled"
    /\ notify(c, calls[c].port.sub)
    /\ UNCHANGED <<now, store, listeners, unsubFns, onChange, lastMutation, cancelled, peer, provider>>

getSubscriptionReturn(c) ==
    /\ PassIdle
    /\ calls[c].op = "get" /\ calls[c].pc = "settled"
    /\ calls' = [calls EXCEPT ![c].pc = "done", ![c].result = GetResult(calls[c].port)]
    /\ UNCHANGED <<now, store, listeners, unsubFns, onChange, pass, lastMutation, cancelled, peer, provider>>

isActiveReturn(c) ==
    /\ PassIdle
    /\ calls[c].op = "isActive" /\ calls[c].pc = "settled"
    /\ calls' = [calls EXCEPT ![c].pc = "done", ![c].result = IsActiveResult(calls[c].port)]
    /\ UNCHANGED <<now, store, listeners, unsubFns, onChange, pass, lastMutation, cancelled, peer, provider>>

\* the awaited port call rejected: the call rejects with the same error
Propagate(c) ==
    /\ calls' = [calls EXCEPT ![c].pc = "done", ![c].result = Rejected(calls[c].port.error)]
    /\ pass' = pass

setSubscriptionResume(c) ==
    /\ PassIdle
    /\ calls[c].op = "set" /\ calls[c].pc = "settled"
    /\ IF NotifyAfter(calls[c].port) THEN notify(c, calls[c].req.value) ELSE Propagate(c)
    /\ UNCHANGED <<now, store, listeners, unsubFns, onChange, lastMutation, cancelled, peer, provider>>

clearSubscriptionResume(c) ==
    /\ PassIdle
    /\ calls[c].op = "clear" /\ calls[c].pc = "settled"
    /\ IF NotifyAfter(calls[c].port) THEN notify(c, Null) ELSE Propagate(c)
    /\ UNCHANGED <<now, store, listeners, unsubFns, onChange, lastMutation, cancelled, peer, provider>>

\* ------------------------------------------------------ observer registry
Registry(cursor) ==
    [listeners |-> listeners, unsubFns |-> unsubFns, cancelled |-> cancelled, cursor |-> cursor]

\* subscribe(listener): listeners.add(listener), a new unsubscribe closure
DoSubscribe(reg, l) ==
    [reg EXCEPT !.listeners = SetAdd(@, l),
                !.unsubFns = Append(@, [listener |-> l, called |-> FALSE]),
                !.cancelled = @ \ {l}]

\* (mutant) the closure leaves the listener registered
DoUnsubscribe_Keep(reg, h) ==
    [reg EXCEPT !.unsubFns[h].called = TRUE, !.cancelled = @ \cup {reg.unsubFns[h].listener}]

\* the closure returned by subscribe: listeners.delete(listener)
DoUnsubscribe(reg, h) ==
    LET l == reg.unsubFns[h].listener IN
    [reg EXCEPT !.listeners = SetDelete(@, l),
                !.cursor = CursorAfterDelete(reg.listeners, @, l),
                !.unsubFns[h].called = TRUE,
                !.cancelled = @ \cup {l}]

CanSubscribe(reg) == Len(reg.unsubFns) < MaxUnsubFns

SetRegistry(reg) ==
    /\ listeners' = reg.listeners
    /\ unsubFns' = reg.unsubFns
    /\ cancelled' = reg.cancelled

subscribe(l) ==
    /\ PassIdle
    /\ CanSubscribe(Registry(0))
    /\ SetRegistry(DoSubscribe(Registry(0), l))
    /\ UNCHANGED <<now, store, onChange, calls, pass, lastMutation, peer, provider>>

unsubscribe(h) ==
    /\ PassIdle
    /\ SetRegistry(DoUnsubscribe(Registry(0), h))
    /\ UNCHANGED <<now, store, onChange, calls, pass, lastMutation, peer, provider>>

\* --------------------------------------------------- a notification pass
\* what an invoked callback may do before it returns or throws
Bodies(reg) ==
    {[threw |-> FALSE, error |-> "", reg |-> reg]}
    \cup {[threw |-> TRUE, error |-> e, reg |-> reg] : e \in ThrownErrors}
    \cup {[threw |-> FALSE, error |-> "", reg |-> DoSubscribe(reg, l)] :
            l \in {x \in Listeners : CanSubscribe(reg)}}
    \cup {[threw |-> FALSE, error |-> "", reg |-> DoUnsubscribe(reg, h)] :
            h \in 1..Len(reg.unsubFns)}

\* (mutant) a throwing callback makes the manager undo the mutation
Invoke_Rollback(who, body) ==
    LET c == pass.caller
        entry == [who |-> who, value |-> pass.value]
    IN  /\ SetRegistry(body.reg)
        /\ IF body.threw
             THEN /\ calls' = [calls EXCEPT ![c].pc = "done", ![c].log = Append(@, entry),
                                            ![c].threw = TRUE, ![c].result = Rejected(body.error)]
                  /\ pass' = IdlePass
                  /\ store' = [store EXCEPT ![storageKey] = Null]
             ELSE /\ calls' = [calls EXCEPT ![c].log = Append(@, entry)]
                  /\ pass' = [pass EXCEPT !.stage = "forEach", !.cursor = body.reg.cursor]
                  /\ store' = store
        /\ UNCHANGED <<now, onChange, lastMutation, peer, provider>>

\* the callback who is called with the pass's value and runs body
Invoke(who, body) ==
    LET c == pass.caller
        entry == [who |-> who, value |-> pass.value]
    IN  /\ SetRegistry(body.reg)
        /\ IF body.threw
             THEN /\ calls' = [calls EXCEPT ![c].pc = "done", ![c].log = Append(@, entry),
                                            ![c].threw = TRUE, ![c].result = Rejected(body.error)]
                  /\ pass' = IdlePass
             ELSE /\ calls' = [calls EXCEPT ![c].log = Append(@, entry)]
                  /\ pass' = [pass EXCEPT !.stage = "forEach", !.cursor = body.reg.cursor]
        /\ UNCHANGED <<now, store, onChange, lastMutation, peer, provider>>

\* this.config.onChange?.(subscription)
invokeOnChange ==
    /\ pass.stage = "onChange" /\ calls[pass.caller].mgr = 1
    /\ \E body \in Bodies(Registry(0)) : Invoke(OnChange, body)

\* one callback of this.listeners.forEach((fn) => fn(subscription))
invokeListener ==
    /\ pass.stage = "forEach" /\ calls[pass.caller].mgr = 1
    /\ pass.cursor < Len(ListenersOf(1))
    /\ ListenersOf(1)[pass.cursor + 1] # ProviderListener
    /\ \E body \in Bodies(Registry(pass.cursor + 1)) :
          Invoke(ListenersOf(1)[pass.cursor + 1], body)

\* forEach is exhausted: notify returns and the call resolves
notifyReturn ==
    /\ pass.stage = "forEach"
    /\ pass.cursor >= Len(ListenersOf(calls[pass.caller].mgr))
    /\ calls' = [calls EXCEPT ![pass.caller].pc = "done", ![pass.caller].result = Resolved(Null, FALSE)]
    /\ pass' = IdlePass
    /\ UNCHANGED <<now, store, listeners, unsubFns, onChange, lastMutation, cancelled, peer, provider>>

\* ------------------------------------------------------ the second manager
\* a second SubscriptionManager constructed on the same storage and storageKey;
\* its observers return without touching a registry
PeerIssue(c, op, arg, at, req) ==
    calls' = [calls EXCEPT ![c] = [IdleCall EXCEPT !.op = op, !.pc = "awaiting", !.arg = arg,
                                                   !.at = at, !.req = req, !.mgr = 2]]

peerGetSubscription(c) ==
    /\ CanIssue(c)
    /\ PeerIssue(c, "get", Null, 0, GetSubscriptionRequest)
    /\ UNCHANGED <<now, store, listeners, unsubFns, onChange, pass, lastMutation, cancelled, peer, provider>>

peerSetSubscription(c, subscription) ==
    /\ CanIssue(c)
    /\ PeerIssue(c, "set", Some(subscription), now, SetSubscriptionRequest(subscription, now))
    /\ UNCHANGED <<now, store, listeners, unsubFns, onChange, pass, lastMutation, cancelled, peer, provider>>

peerSubscribe(l) ==
    /\ PassIdle
    /\ peer' = [peer EXCEPT !.listeners = SetAdd(@, l)]
    /\ UNCHANGED <<now, store, listeners, unsubFns, onChange, calls, pass, lastMutation, cancelled, provider>>

PeerInvoke(who) ==
    /\ calls' = [calls EXCEPT ![pass.caller].log = Append(@, [who |-> who, value |-> pass.value])]
    /\ UNCHANGED <<now, store, listeners, unsubFns, onChange, lastMutation, cancelled, peer, provider>>

peerInvokeOnChange ==
    /\ pass.stage = "onChange" /\ calls[pass.caller].mgr = 2
    /\ PeerInvoke(PeerOnChange)
    /\ pass' = [pass EXCEPT !.stage = "forEach"]

peerInvokeListener ==
    /\ pass.stage = "forEach" /\ calls[pass.caller].mgr = 2
    /\ pass.cursor < Len(ListenersOf(2))
    /\ PeerInvoke(ListenersOf(2)[pass.cursor + 1])
    /\ pass' = [pass EXCEPT !.cursor = @ + 1]

\* ------------------------------------------------- SubscriptionProvider
\* (mutant) the effect's callbacks ignore the cancelled flag
Live_Always(p) == TRUE
\* if (!cancelled)
Live(p) == ~p.cancelled

\* err instanceof Error ? err : new Error(String(err))
InstanceOfError(err) == err \in StorageErrors \cup ThrownErrors
ToError(err) == IF InstanceOfError(err) THEN err ELSE "Error: " \o err

\* first render and its effect: getSubscription() is called, then subscribe()
mount ==
    /\ PassIdle
    /\ provider.phase = "unmounted"
    /\ Issue(HydrateId, "get", Null, 0, GetSubscriptionRequest)
    /\ listeners' = SetAdd(listeners, ProviderListener)
    /\ provider' = [provider EXCEPT !.phase = "mounted"]
    /\ UNCHANGED <<now, store, unsubFns, onChange, pass, lastMutation, cancelled, peer>>

\* the effect's cleanup: cancelled = true; unsubscribe()
unmount ==
    /\ PassIdle
    /\ provider.phase = "mounted"
    /\ listeners' = SetDelete(listeners, ProviderListener)
    /\ provider' = [provider EXCEPT !.phase = "torn", !.cancelled = TRUE]
    /\ UNCHANGED <<now, store, unsubFns, onChange, calls, pass, lastMutation, cancelled, peer>>

\* .then((sub) => { if (!cancelled) { setSubscriptionState(sub); setLoading(false) } })
hydrateThen ==
    /\ PassIdle
    /\ provider.phase # "unmounted" /\ ~provider.handled
    /\ calls[HydrateId].pc = "done" /\ calls[HydrateId].result.status = "ok"
    /\ provider' = IF Live(provider)
                     THEN [provider EXCEPT !.handled = TRUE, !.loading = FALSE,
                                           !.subscription = calls[HydrateId].result.sub]
                     ELSE [provider EXCEPT !.handled = TRUE]
    /\ UNCHANGED <<now, store, listeners, unsubFns, onChange, calls, pass, lastMutation, cancelled, peer>>

\* (mutant) the failure handler records the error and leaves loading set
hydrateCatch_KeepLoading ==
    /\ PassIdle
    /\ provider.phase # "unmounted" /\ ~provider.handled
    /\ calls[HydrateId].pc = "done" /\ calls[HydrateId].result.status = "err"
    /\ provider' = IF Live(provider)
                     THEN [provider EXCEPT !.handled = TRUE,
                                           !.error = Some(ToError(calls[HydrateId].result.error))]
                     ELSE [provider EXCEPT !.handled = TRUE]
    /\ UNCHANGED <<now, store, listeners, unsubFns, onChange, calls, pass, lastMutation, cancelled, peer>>

\* .catch((err) => { if (!cancelled) { setError(...); setLoading(false) } })
hydrateCatch ==
    /\ PassIdle
    /\ provider.phase # "unmounted" /\ ~provider.handled
    /\ calls[HydrateId].pc = "done" /\ calls[HydrateId].result.status = "err"
    /\ provider' = IF Live(provider)
                     THEN [provider EXCEPT !.handled = TRUE, !.loading = FALSE,
                                           !.error = Some(ToError(calls[HydrateId].result.error))]
                     ELSE [provider EXCEPT !.handled = TRUE]
    /\ UNCHANGED <<now, store, listeners, unsubFns, onChange, calls, pass, lastMutation, cancelled, peer>>

\* forEach reaches the provider's listener: (sub) => { if (!cancelled) setSubscriptionState(sub) }
invokeProviderListener ==
    /\ pass.stage = "forEach" /\ calls[pass.caller].mgr = 1
    /\ pass.cursor < Len(ListenersOf(1))
    /\ ListenersOf(1)[pass.cursor + 1] = ProviderListener
    /\ calls' = [calls EXCEPT ![pass.caller].log =
                                 Append(@, [who |-> ProviderListener, value |-> pass.value])]
    /\ pass' = [pass EXCEPT !.cursor = @ + 1]
    /\ provider' = IF Live(provider) THEN [provider EXCEPT !.subscription = pass.value]
                                     ELSE provider
    /\ UNCHANGED <<now, store, listeners, unsubFns, onChange, lastMutation, cancelled, peer>>

Tick ==
    /\ PassIdle
    /\ now < MaxClock
    /\ now' = now + 1
    /\ UNCHANGED <<store, listeners, unsubFns, onChange, calls, pass, lastMutation, cancelled, peer, provider>>

Next ==
    \/ Tick
    \/ \E c \in SeqIds : getSubscription(c)
    \/ \E c \in SeqIds : isActive(c)
    \/ \E c \in SeqIds, r \in InputRecords : setSubscription(c, r)
    \/ \E c \in SeqIds : clearSubscription(c)
    \/ \E c \in CallIds : storageSettle(c)
    \/ \E c \in CallIds, e \in StorageErrors : storageFail(c, e)
    \/ \E c \in CallIds : getSubscriptionReturn(c)
    \/ \E c \in CallIds : isActiveReturn(c)
    \/ \E c \in CallIds : setSubscriptionResume(c)
    \/ \E c \in CallIds : clearSubscriptionResume(c)
    \/ \E l \in Listeners : subscribe(l)
    \/ \E h \in 1..Len(unsubFns) : unsubscribe(h)
    \/ invokeOnChange
    \/ invokeListener
    \/ notifyReturn

Spec == Init /\ [][Next]_vars

\* two callers, each issuing one call of the manager without waiting for the
\* other's call to finish: the two calls may be in flight at the same time
Fresh(c) == calls[c].pc = "idle"

NextConc ==
    \/ Tick
    \/ \E c \in CallIds : Fresh(c) /\ getSubscription(c)
    \/ \E c \in CallIds, r \in InputRecords : Fresh(c) /\ setSubscription(c, r)
    \/ \E c \in CallIds : Fresh(c) /\ clearSubscription(c)
    \/ \E c \in CallIds : storageSettle(c)
    \/ \E c \in CallIds, e \in StorageErrors : storageFail(c, e)
    \/ \E c \in CallIds : getSubscriptionReturn(c)
    \/ \E c \in CallIds : setSubscriptionResume(c)
    \/ \E c \in CallIds : clearSubscriptionResume(c)
    \/ \E l \in Listeners : subscribe(l)
    \/ invokeOnChange
    \/ invokeListener
    \/ notifyReturn

SpecConc == Init /\ [][NextConc]_vars

\* two managers on one port and key, their calls awaited one after another
NextTwo ==
    \/ Tick
    \/ \E c \in SeqIds : getSubscription(c)
    \/ \E c \in SeqIds, r \in InputRecords : setSubscription(c, r)
    \/ \E c \in SeqIds : clearSubscription(c)
    \/ \E c \in SeqIds : peerGetSubscription(c)
    \/ \E c \in SeqIds, r \in InputRecords : peerSetSubscription(c, r)
    \/ \E c \in SeqIds : storageSettle(c)
    \/ \E c \in SeqIds, e \in StorageErrors : storageFail(c, e)
    \/ \E c \in SeqIds : getSubscriptionReturn(c)
    \/ \E c \in SeqIds : setSubscriptionResume(c)
    \/ \E c \in SeqIds : clearSubscriptionResume(c)
    \/ \E l \in Listeners : subscribe(l)
    \/ \E l \in PeerListeners : peerSubscribe(l)
    \/ invokeOnChange
    \/ invokeListener
    \/ peerInvokeOnChange
    \/ peerInvokeListener
    \/ notifyReturn

SpecTwo == Init /\ [][NextTwo]_vars

\* a manager with one SubscriptionProvider over one mount and teardown, and a
\* caller making one mutation at any moment of the provider's life
NextProvider ==
    \/ Tick
    \/ mount
    \/ unmount
    \/ hydrateThen
    \/ hydrateCatch
    \/ \E c \in SeqIds, r \in InputRecords : Fresh(c) /\ setSubscription(c, r)
    \/ \E c \in SeqIds : Fresh(c) /\ clearSubscription(c)
    \/ \E c \in CallIds : storageSettle(c)
    \/ \E c \in CallIds, e \in StorageErrors \cup NonErrorRejections : storageFail(c, e)
    \/ \E c \in CallIds : getSubscriptionReturn(c)
    \/ \E c \in CallIds : setSubscriptionResume(c)
    \/ \E c \in CallIds : clearSubscriptionResume(c)
    \/ \E l \in Listeners : subscribe(l)
    \/ invokeOnChange
    \/ invokeListener
    \/ invokeProviderListener
    \/ notifyReturn

SpecProvider == Init /\ [][NextProvider]_vars
\* =================================================================== claims
Stored == store[storageKey]
Done(c) == calls[c].pc = "done"
PortOk(c) == calls[c].port.status = "ok"
PortFailed(c) == calls[c].port.status = "err"
Returned(c) == Done(c) /\ calls[c].result.status = "ok"
Count(log, who) == Cardinality({i \in 1..Len(log) : log[i].who = who})
Registered == {listeners[i] : i \in 1..Len(listeners)}

\* what a caller expects to read back: the input of the last mutation the port
\* accepted, with an empty updatedAt replaced by the time of that call
ExpectedSub ==
    IF lastMutation.op = "set"
      THEN LET r == lastMutation.input[1] IN
           Some([active |-> r.active, plan |-> r.plan,
                 updatedAt |-> IF r.updatedAt = "" THEN toISOString(lastMutation.at)
                                                   ELSE r.updatedAt])
      ELSE Null

\* C1: with calls awaited one after another, getSubscription returns the record
\* of the most recent setSubscription whose write the Storage Port accepted,
\* unless a clearSubscription whose remove was accepted followed it, and null
\* otherwise; a mutation the port refused leaves the value to be read unchanged.
\* (Success of a mutation is that of its Storage Port call.)
C1_GetReflectsLastMutation ==
    /\ Stored = ExpectedSub
    /\ \A c \in SeqIds :
          calls[c].op = "get" /\ Returned(c) => calls[c].result.sub = ExpectedSub

C1_Witness ==
    \E c \in SeqIds :
        /\ calls[c].op = "get" /\ Returned(c)
        /\ lastMutation.op = "set" /\ lastMutation.input[1].updatedAt = "" /\ lastMutation.at = 1
        /\ calls[c].result.sub =
              Some([active |-> TRUE, plan |-> "pro", updatedAt |-> "2026-01-01T00:00:01.000Z"])

\* C2: a getSubscription that follows an accepted setSubscription(R) with a
\* non-empty R.updatedAt returns a record with exactly that updatedAt.
C2_UpdatedAtPreserved ==
    \A c \in SeqIds :
        (/\ calls[c].op = "get" /\ Returned(c)
         /\ lastMutation.op = "set"
         /\ lastMutation.input[1].updatedAt # "")
        => /\ calls[c].result.sub # Null
           /\ calls[c].result.sub[1].updatedAt = lastMutation.input[1].updatedAt

C2_Witness ==
    \E c \in SeqIds :
        /\ calls[c].op = "get" /\ Returned(c)
        /\ lastMutation.op = "set" /\ lastMutation.input[1].updatedAt = CallerStamp
        /\ lastMutation.at > 0
        /\ calls[c].result.sub = Some([active |-> FALSE, plan |-> "free", updatedAt |-> CallerStamp])

\* C3: once the port accepted the write of a setSubscription, the record under
\* the configured key has a non-empty updatedAt, and when the input's updatedAt
\* was empty it is the timestamp of the instant of the call.
C3_StoredUpdatedAtNonEmpty ==
    \A c \in SeqIds :
        (calls[c].op = "set" /\ PortOk(c))
        => /\ Stored # Null
           /\ Stored[1].updatedAt # ""
           /\ calls[c].arg[1].updatedAt = "" => Stored[1].updatedAt = toISOString(calls[c].at)

C3_Witness ==
    \E c \in SeqIds :
        /\ calls[c].op = "set" /\ Returned(c)
        /\ calls[c].arg[1].updatedAt = "" /\ calls[c].at = 1
        /\ Stored[1].updatedAt = "2026-01-01T00:00:01.000Z"

\* C4: isActive returns true exactly when a record is stored and its active
\* field is true: false before any set, after a clear, and after a set of an
\* inactive record.
C4_IsActiveIffStoredActive ==
    \A c \in SeqIds :
        (calls[c].op = "isActive" /\ Returned(c))
        => /\ calls[c].result.flag = (Stored # Null /\ Stored[1].active)
           /\ calls[c].result.flag = (lastMutation.op = "set" /\ lastMutation.input[1].active)

C4_Witness ==
    \E c \in SeqIds :
        /\ calls[c].op = "isActive" /\ Returned(c)
        /\ calls[c].result.flag = FALSE
        /\ Stored # Null

\* C5: after the port accepted the remove of a clearSubscription, the entry
\* under the configured key is gone and getSubscription returns null, whatever
\* was stored before.
C5_ClearRemoves ==
    \A c \in SeqIds :
        /\ (calls[c].op = "clear" /\ PortOk(c)) => Stored = Null
        /\ (calls[c].op = "get" /\ Returned(c) /\ lastMutation.op = "clear")
              => calls[c].result.sub = Null

C5_Witness ==
    \E c \in SeqIds :
        calls[c].op = "clear" /\ Returned(c) /\ calls[c].hadRecord /\ Stored = Null
\* the value a mutation call hands to notify
MutationValue(c) == IF calls[c].op = "set" THEN calls[c].req.value ELSE Null
IsMutation(c) == calls[c].op \in {"set", "clear"}
Invoked(log) == {log[i].who : i \in 1..Len(log)}

\* C6: a setSubscription or clearSubscription that resolves has invoked every
\* listener registered when its notification began exactly once, and the change
\* callback (if configured) exactly once, each with the value of that mutation.
C6_EachObserverExactlyOnce ==
    \A c \in SeqIds :
        (IsMutation(c) /\ Returned(c))
        => /\ \A l \in calls[c].startSet : Count(calls[c].log, l) = 1
           /\ onChange => Count(calls[c].log, OnChange) = 1
           /\ \A i \in 1..Len(calls[c].log) : calls[c].log[i].value = MutationValue(c)

\* the listener invoked by this step, if the step is an invocation
InvokedNow(c) == calls'[c].log[Len(calls'[c].log)].who
IsInvocation(c) == Len(calls'[c].log) > Len(calls[c].log)
\* this step ends a notification pass and the mutation call resolves
PassResolves == pass.stage # "idle" /\ pass'.stage = "idle"
                   /\ calls'[pass.caller].result.status = "ok"

\* C7: a listener whose unsubscribe function has been called (and that was not
\* subscribed again since) is never invoked by a later notification, while every
\* listener still registered when a mutation call resolves was notified by it.
C7_NoNotifyAfterUnsubscribe ==
    [][/\ \A c \in CallIds : IsInvocation(c) => InvokedNow(c) \notin cancelled
       /\ PassResolves => Registered' \subseteq Invoked(calls'[pass.caller].log)]_vars

C7_Witness ==
    \E c \in SeqIds, l \in Listeners :
        /\ IsMutation(c) /\ Returned(c)
        /\ l \in cancelled /\ l \notin Invoked(calls[c].log)
        /\ \E m \in Registered : m # l /\ m \in Invoked(calls[c].log)

\* C8: when the Storage Port call of setSubscription or clearSubscription
\* fails, that call invokes neither the change callback nor any listener.
C8_NoNotifyOnFailure ==
    \A c \in SeqIds :
        (IsMutation(c) /\ PortFailed(c))
        => calls[c].log = <<>> /\ calls[c].pc # "notifying"

C8_Witness ==
    \E c \in SeqIds :
        /\ calls[c].op = "set" /\ Done(c) /\ PortFailed(c)
        /\ onChange /\ Len(listeners) = 2

\* C9 (as stated): every manager call fails exactly when its Storage Port call
\* fails, and then with the same error, whatever the observers do.
C9_FailsIffPortFails ==
    \A c \in SeqIds :
        Done(c) => /\ (calls[c].result.status = "err") = PortFailed(c)
                   /\ PortFailed(c) => calls[c].result.error = calls[c].port.error

\* C9 (amended): a manager call whose Storage Port call fails fails with the
\* same error; getSubscription and isActive fail in no other case; a
\* setSubscription or clearSubscription whose port call succeeded fails exactly
\* when the change callback or a listener throws during its notification pass,
\* and then with the thrown value.
C9_FailsIffPortFailsOrObserverThrows ==
    \A c \in SeqIds :
        Done(c) => /\ PortFailed(c) => calls[c].result = Rejected(calls[c].port.error)
                   /\ (PortOk(c) /\ ~IsMutation(c)) => calls[c].result.status = "ok"
                   /\ (PortOk(c) /\ IsMutation(c)) =>
                         /\ (calls[c].result.status = "err") = calls[c].threw
                         /\ calls[c].threw => /\ calls[c].result.error \in ThrownErrors
                                              /\ calls[c].log # <<>>

C9_Witness ==
    \E c \in SeqIds :
        /\ calls[c].op = "isActive" /\ Done(c) /\ PortFailed(c)
        /\ calls[c].result = Rejected("QuotaExceeded")
        /\ Stored # Null

\* C10: calling an unsubscribe function that has been called before leaves the
\* observer set unchanged, also when the same listener was registered again in
\* between.
C10_RepeatedUnsubscribeNoOp ==
    [][\A h \in 1..Len(unsubFns) :
          (unsubFns[h].called /\ unsubscribe(h)) => listeners' = listeners]_vars
\* C11 (as stated): a listener registered from inside a callback while a pass
\* is running is not invoked in that pass: every listener a pass invokes was
\* registered when the pass began.
C11_LateListenerNotInvoked ==
    \A c \in SeqIds : \A i \in 1..Len(calls[c].log) :
        calls[c].log[i].who # OnChange => calls[c].log[i].who \in calls[c].startSet

\* C12 (as stated): an unsubscribe made from inside a callback takes effect
\* only after the pass: when the mutation call resolves, every listener that
\* was registered when its pass began has been invoked, and only once.
C12_UnsubscribeInPassDeferred ==
    \A c \in SeqIds :
        (IsMutation(c) /\ Returned(c))
        => /\ calls[c].startSet \subseteq Invoked(calls[c].log)
           /\ \A l \in calls[c].startSet : Count(calls[c].log, l) <= 1

NoDuplicates ==
    \A i, j \in 1..Len(listeners) : i # j => listeners[i] # listeners[j]
Handles(l) == {h \in 1..Len(unsubFns) : unsubFns[h].listener = l}

\* none of the closures subscribe returned for l has been called
NeverUnsubscribed(l) == \A h \in Handles(l) : ~unsubFns[h].called

\* C13: the registry never holds a listener reference twice, however often it
\* was subscribed; a pass invokes a listener none of whose unsubscribe closures
\* was ever called at most once, and exactly once when the listener was
\* registered at the start of the pass and the mutation call resolves. This
\* holds for every listener, so two distinct listeners are invoked once each.
C13_SetSemantics ==
    /\ NoDuplicates
    /\ \A c \in SeqIds : \A l \in Listeners :
          NeverUnsubscribed(l)
          => /\ Count(calls[c].log, l) <= 1
             /\ (IsMutation(c) /\ Returned(c) /\ l \in calls[c].startSet)
                => Count(calls[c].log, l) = 1

\* a pass that has just invoked its last listener: l, subscribed twice and
\* never unsubscribed, is the one entry of the registry and is invoked once
C13_Witness ==
    \E c \in SeqIds, l \in Listeners :
        /\ calls[c].pc = "notifying" /\ l \in calls[c].startSet
        /\ Cardinality(Handles(l)) = 2 /\ NeverUnsubscribed(l)
        /\ listeners = <<l>> /\ pass.cursor = 1
        /\ Count(calls[c].log, l) = 1

\* C14: in a notification pass the change callback, when configured, is the
\* first callback invoked and is invoked nowhere else; every callback of the
\* pass receives the value of the mutation.
C14_OnChangeFirst ==
    \A c \in SeqIds :
        /\ (onChange /\ calls[c].log # <<>>) => calls[c].log[1].who = OnChange
        /\ \A i \in 1..Len(calls[c].log) :
              /\ calls[c].log[i].who = OnChange => (i = 1 /\ onChange)
              /\ calls[c].log[i].value = MutationValue(c)

C14_Witness ==
    \E c \in SeqIds :
        /\ calls[c].op = "set" /\ Returned(c) /\ onChange
        /\ Len(calls[c].log) = 3
        /\ calls[c].log[1].who = OnChange
        /\ calls[c].log[2].who \in Listeners /\ calls[c].log[3].who \in Listeners
        /\ calls[c].log[3].value = calls[c].req.value

IsRead(call) == call.op \in {"get", "isActive"}

\* C16: no step of a getSubscription or isActive call changes the store or the
\* observer registry, starts a notification pass or invokes a callback.
C16_ReadsArePure ==
    [][\A c \in CallIds :
          (IsRead(calls'[c]) /\ calls'[c] # calls[c])
          => /\ store' = store
             /\ listeners' = listeners
             /\ pass' = pass
             /\ calls'[c].log = <<>>]_vars

C16_Witness ==
    \E c \in SeqIds :
        /\ calls[c].op = "isActive" /\ Returned(c) /\ calls[c].result.flag
        /\ onChange /\ Len(listeners) = 2
        /\ calls[c].log = <<>>

\* C17: the record setSubscription hands to the Storage Port has the fields of
\* the input and equals it in every field but updatedAt, which differs only
\* when the input's was empty; that record is what is stored and what every
\* callback receives.
C17_FieldsPassThrough ==
    \A c \in SeqIds :
        calls[c].op = "set" =>
            LET in == calls[c].arg[1]
                out == calls[c].req.value[1]
            IN  /\ calls[c].req.kind = "set" /\ calls[c].req.key = storageKey
                /\ DOMAIN out = DOMAIN in
                /\ \A f \in DOMAIN in \ {"updatedAt"} : out[f] = in[f]
                /\ in.updatedAt # "" => out.updatedAt = in.updatedAt
                /\ PortOk(c) => Stored = Some(out)
                /\ \A i \in 1..Len(calls[c].log) : calls[c].log[i].value = Some(out)

C17_Witness ==
    \E c \in SeqIds :
        /\ calls[c].op = "set" /\ Returned(c) /\ Len(calls[c].log) >= 1
        /\ calls[c].arg[1] = [active |-> FALSE, plan |-> "free", updatedAt |-> ""]
        /\ Stored = Some([active |-> FALSE, plan |-> "free", updatedAt |-> toISOString(calls[c].at)])
\* C15: when both callers' calls are setSubscription, each write is at the
\* Storage Port from the moment its call is issued, whatever the other call is
\* doing; a call fails only if its own port call failed or one of its observers
\* threw; a call that resolved has run its notification pass; and once both
\* port calls have succeeded and both calls are over, the stored record is the
\* record of the write the port applied last.
C15_ConcurrentSets ==
    (\A c \in CallIds : calls[c].op = "set")
    => /\ \A c \in CallIds :
             /\ calls[c].req.kind = "set" /\ calls[c].req.value = Some(ToStore(calls[c].arg[1], calls[c].at))
             /\ (Done(c) /\ calls[c].result.status = "err") => (PortFailed(c) \/ calls[c].threw)
             /\ Returned(c)
                => /\ PortOk(c)
                   /\ onChange => Count(calls[c].log, OnChange) = 1
                   /\ \A l \in calls[c].startSet :
                         NeverUnsubscribed(l) => Count(calls[c].log, l) = 1
                   /\ \A i \in 1..Len(calls[c].log) : calls[c].log[i].value = calls[c].req.value
       /\ (\A c \in CallIds : Done(c) /\ PortOk(c))
          => /\ lastMutation.by \in CallIds
             /\ Stored = calls[lastMutation.by].req.value

\* caller 1 issued its write after caller 2 and the port applied it before
\* caller 2's: both calls resolved and notified, caller 2's record is stored
C15_Witness ==
    /\ \A c \in CallIds : calls[c].op = "set" /\ Returned(c) /\ Len(calls[c].log) = 2
    /\ calls[2].at < calls[1].at
    /\ lastMutation.by = 2
    /\ calls[1].req.value # calls[2].req.value
    /\ Stored = calls[2].req.value
ObserversOf(m) == IF m = 1 THEN Listeners \cup {OnChange} ELSE PeerListeners \cup {PeerOnChange}

\* C18: a notification pass invokes only callbacks of the manager whose call
\* started it, never a listener or the change callback of the other manager on
\* the same port and key; and a getSubscription through either manager returns
\* the record of the last accepted mutation, whichever manager made it.
C18_RegistryPerInstance ==
    \A c \in SeqIds :
        /\ \A i \in 1..Len(calls[c].log) : calls[c].log[i].who \in ObserversOf(calls[c].mgr)
        /\ (calls[c].op = "get" /\ Returned(c)) => calls[c].result.sub = ExpectedSub

\* a mutation through the first manager has run its pass over its own two
\* observers while the second manager had a listener and a change callback
C18_Witness ==
    \E c \in SeqIds :
        /\ calls[c].op = "set" /\ calls[c].mgr = 1 /\ Returned(c)
        /\ peer.listeners # <<>> /\ peer.onChange
        /\ onChange /\ listeners # <<>>
        /\ Invoked(calls[c].log) = {OnChange, listeners[1]}

\* the second manager reads the record the first manager wrote
C18_WitnessPeerReads ==
    \E c \in SeqIds :
        /\ calls[c].op = "get" /\ calls[c].mgr = 2 /\ Returned(c)
        /\ lastMutation.op = "set" /\ lastMutation.mgr = 1
        /\ calls[c].result.sub # Null
Hydration == calls[HydrateId]

\* C19: while the provider is mounted, loading is true as long as the hydration
\* getSubscription has not settled and false once its handler has run; loading
\* never goes from false to true; and the step that clears loading either
\* follows a resolved hydration and stores its value, leaving error empty, or
\* follows a failed hydration and stores the error.
C19_LoadingUntilHydrated ==
    /\ [](provider.phase = "mounted"
          => /\ ~Done(HydrateId) => provider.loading
             /\ provider.handled => ~provider.loading
             /\ (provider.handled /\ Hydration.result.status = "err")
                => provider.error = Some(ToError(Hydration.result.error))
             /\ (provider.handled /\ Hydration.result.status = "ok") => provider.error = Null)
    /\ [][/\ ~provider.loading => ~provider'.loading
          /\ (provider.loading /\ ~provider'.loading)
             => /\ Done(HydrateId) /\ provider.phase = "mounted"
                /\ Hydration.result.status = "ok"
                   => provider'.subscription = Hydration.result.sub /\ provider'.error = Null
                /\ Hydration.result.status = "err"
                   => provider'.error # Null /\ provider'.subscription = provider.subscription]_vars

\* the hydration read failed with a value that is not an Error and the mounted
\* provider shows the wrapped error with loading cleared
C19_Witness ==
    /\ provider.phase = "mounted" /\ provider.handled /\ ~provider.loading
    /\ Hydration.result.status = "err" /\ ~InstanceOfError(Hydration.result.error)
    /\ provider.error = Some("Error: offline")

\* C20: tearing the provider down removes its listener from the registry, the
\* listener is not in the registry at any later time, and no step taken after
\* the teardown changes the provider's subscription, loading or error.
C20_TornDownIsInert ==
    /\ [](provider.phase = "torn" => ProviderListener \notin Registered)
    /\ [][provider.phase = "torn"
          => /\ provider'.subscription = provider.subscription
             /\ provider'.loading = provider.loading
             /\ provider'.error = provider.error]_vars

\* torn down before the handler of the hydration read ran: the handler has run
\* since, and a write the port applied after that read has notified since, and
\* the provider still shows its initial state
C20_Witness ==
    /\ provider.phase = "torn" /\ provider.handled
    /\ Hydration.result.status = "ok" /\ Hydration.result.sub = Null
    /\ \E c \in SeqIds : calls[c].op = "set" /\ Returned(c) /\ calls[c].log # <<>>
    /\ Stored # Null
    /\ provider.subscription = Null /\ provider.loading
\* C23: when the change callback or a listener throws during the pass of a
\* setSubscription or clearSubscription, the call is over and rejected with the
\* thrown value although its port call succeeded; the step of the throw leaves
\* the store as the mutation made it and ends the pass; and no callback is
\* invoked for that call afterwards.
C23_ThrowPropagates ==
    /\ [](\A c \in SeqIds :
            calls[c].threw
            => /\ IsMutation(c) /\ Done(c) /\ PortOk(c)
               /\ calls[c].result.status = "err" /\ calls[c].result.error \in ThrownErrors
               /\ Stored = MutationValue(c)
               /\ calls[c].log # <<>>)
    /\ [][\A c \in SeqIds :
            /\ (~calls[c].threw /\ calls'[c].threw)
               => /\ store' = store
                  /\ pass.caller = c /\ pass' = IdlePass
                  /\ Len(calls'[c].log) = Len(calls[c].log) + 1
            /\ (calls[c].threw /\ calls'[c].threw)
               => calls'[c].log = calls[c].log]_vars

\* the change callback threw after an accepted write: the record is stored,
\* the call is rejected and the two registered listeners were not invoked
C23_Witness ==
    \E c \in SeqIds :
        /\ calls[c].op = "set" /\ calls[c].threw /\ Done(c)
        /\ calls[c].log = <<[who |-> OnChange, value |-> calls[c].req.value]>>
        /\ Cardinality(calls[c].startSet) = 2 /\ Len(listeners) = 2
        /\ Stored = calls[c].req.value
        /\ calls[c].result = Rejected("ListenerError")
\* the calls whose pass invoked l, and the value of the latest of those passes
DeliveredBy(l) == {c \in CallIds : l \in Invoked(calls[c].log)}
LastDelivered(l) ==
    LET c == CHOOSE d \in DeliveredBy(l) : \A e \in DeliveredBy(l) : calls[e].passNo <= calls[d].passNo
    IN  MutationValue(c)

\* C21 (as stated): when the two callers' calls are setSubscription or
\* clearSubscription calls and both have resolved, the value last delivered to
\* a listener that was registered before both passes and never unsubscribed is
\* the value in the store, which getSubscription returns.
C21_LastNotificationAgrees ==
    (\A c \in CallIds : IsMutation(c) /\ Returned(c))
    => \A l \in Registered :
          (NeverUnsubscribed(l) /\ \A c \in CallIds : l \in calls[c].startSet)
          => LastDelivered(l) = Stored
\* C22 (as stated): for a mounted provider whose hydration read resolved and
\* whose handler has run, once the caller's mutation, if it made one, has
\* resolved, the provider's subscription is the value in the store.
C22_ProviderAgreesWithStore ==
    (/\ provider.phase = "mounted" /\ provider.handled
     /\ Hydration.result.status = "ok"
     /\ \A c \in SeqIds : calls[c].pc = "idle" \/ (IsMutation(c) /\ Returned(c)))
    => provider.subscription = Stored
====
